---- MODULE Spec2Model ----
(***************************************************************************)
(* Model of the request intake of the AZ Window Services backend:          *)
(* submit_lead and submit_estimate of main.py with the Lead and Estimate   *)
(* models of schemas.py, the upload directory and the document store.      *)
(*                                                                         *)
(* Text is a sequence of one-character strings, a byte string a sequence   *)
(* of numbers in 0..255, a resolved filesystem path a sequence of path     *)
(* components (each a text).                                               *)
(***************************************************************************)
EXTENDS Integers, Sequences, FiniteSets, TLC

\* ------------------------------------------------------------------ bounds
\* Uploaded files over all requests together.
MaxFiles == 2
\* Distinct values os.urandom(4) is seen to return.
NumRand == 2
\* Length of the free prefix and tail of the file names given to the naming
\* function on its own.
MaxAffix == 2

\* ------------------------------------------------------- program constants
\* base.replace(" ", "_")[:50]
MaxBase == 50
\* os.urandom(4)
RandLen == 4

\* The requests in flight together. Two are what an overwrite or a collision
\* between requests takes; their numbers are labels only.
Requests == {1, 2}

\* --------------------------------------------------------------- text
HexDigits == <<"0", "1", "2", "3", "4", "5", "6", "7",
               "8", "9", "a", "b", "c", "d", "e", "f">>

HexChars == {HexDigits[i] : i \in 1..16}

\* bytes.hex(): two lower-case digits per byte, high nibble first.
RECURSIVE Hex(_)
Hex(bytes) ==
    IF bytes = <<>> THEN <<>>
    ELSE <<HexDigits[(Head(bytes) \div 16) + 1], HexDigits[(Head(bytes) % 16) + 1]>>
         \o Hex(Tail(bytes))

\* The i-th value os.urandom(4) returns in the model: RandLen bytes, no two
\* values alike in any byte.
RandomBytes(i) == [k \in 1..RandLen |-> (i * 73 + k * 41) % 256]

\* The values os.urandom(4) returns in the model: NumRand of the 2^32.
Urandom == {RandomBytes(i) : i \in 1..NumRand}

\* str.rfind(ch), 1-based; 0 when absent (Python's -1).
RECURSIVE RFind(_, _)
RFind(s, ch) ==
    IF s = <<>> THEN 0
    ELSE IF s[Len(s)] = ch THEN Len(s)
    ELSE RFind(SubSeq(s, 1, Len(s) - 1), ch)

\* str.replace(old, new) for one-character old and new.
Replace(s, old, new) == [i \in 1..Len(s) |-> IF s[i] = old THEN new ELSE s[i]]

\* s[:n]
Take(s, n) == SubSeq(s, 1, IF Len(s) < n THEN Len(s) ELSE n)

\* os.path.splitext (posixpath): the extension starts at the last dot that
\* follows the last separator, unless only dots precede it in the basename.
SplitExt(p) ==
    LET sepIndex == RFind(p, "/")
        dotIndex == RFind(p, ".")
    IN  IF /\ dotIndex > sepIndex
           /\ \E k \in (sepIndex + 1)..(dotIndex - 1) : p[k] # "."
        THEN [base |-> SubSeq(p, 1, dotIndex - 1), ext |-> SubSeq(p, dotIndex, Len(p))]
        ELSE [base |-> p, ext |-> <<>>]

\* The cut one character late: base.replace(" ", "_")[:51].
SafeBaseCutLate(filename) == Take(Replace(SplitExt(filename).base, " ", "_"), MaxBase + 1)

SafeBase(filename) == Take(Replace(SplitExt(filename).base, " ", "_"), MaxBase)

\* The name without its random bytes: f"{safe_base}_{ext}".
UniqueNameNoRandom(filename, rnd) ==
    SafeBase(filename) \o <<"_">> \o SplitExt(filename).ext

\* f"{safe_base}_{os.urandom(4).hex()}{ext}"
UniqueName(filename, rnd) ==
    SafeBase(filename) \o <<"_">> \o Hex(rnd) \o SplitExt(filename).ext

\* ------------------------------------------------------------ file system
CwdDir == <<"w">>
UploadsDir == <<"u">>

\* The directories that exist: /, os.getcwd() and the upload directory.
Dirs == {<<>>, <<CwdDir>>, <<CwdDir, UploadsDir>>}

\* UPLOAD_DIR = os.path.join(os.getcwd(), "uploads"), as text and resolved.
UPLOAD_DIR == <<"/">> \o CwdDir \o <<"/">> \o UploadsDir
UploadPath == <<CwdDir, UploadsDir>>

\* os.path.join(a, b) (posixpath)
PathJoin(a, b) ==
    IF b # <<>> /\ b[1] = "/" THEN b
    ELSE IF a = <<>> \/ a[Len(a)] = "/" THEN a \o b
    ELSE a \o <<"/">> \o b

\* str.split("/")
RECURSIVE Split(_)
Split(p) ==
    IF p = <<>> THEN << <<>> >>
    ELSE LET rest == Split(Tail(p))
         IN  IF Head(p) = "/" THEN << <<>> >> \o rest
             ELSE << <<Head(p)>> \o Head(rest) >> \o Tail(rest)

Parent(dir) == IF dir = <<>> THEN <<>> ELSE SubSeq(dir, 1, Len(dir) - 1)

\* The kernel's walk over the directory components of an absolute path.
RECURSIVE Walk(_, _)
Walk(comps, cur) ==
    IF comps = <<>> THEN [ok |-> TRUE, dir |-> cur]
    ELSE LET c == Head(comps)
         IN  IF c = <<>> \/ c = <<".">> THEN Walk(Tail(comps), cur)
             ELSE IF c = <<".", ".">> THEN Walk(Tail(comps), Parent(cur))
             ELSE IF Append(cur, c) \in Dirs THEN Walk(Tail(comps), Append(cur, c))
             ELSE [ok |-> FALSE, dir |-> cur]

\* open(dest_path, "wb"): the file the path resolves to, or an OSError.
OpenWb(path) ==
    LET comps == Split(path)
        last == comps[Len(comps)]
        w == Walk(SubSeq(comps, 1, Len(comps) - 1), <<>>)
    IN  IF \/ ~w.ok
           \/ last \in {<<>>, <<".">>, <<".", ".">>}
           \/ Append(w.dir, last) \in Dirs
        THEN [ok |-> FALSE, target |-> <<>>]
        ELSE [ok |-> TRUE, target |-> Append(w.dir, last)]

\* ------------------------------------------------------------- validation
Required == {"name", "email", "phone", "service_needed"}

Count(s, ch) == Cardinality({i \in 1..Len(s) : s[i] = ch})

\* EmailStr: one "@", a local part, and a domain of dot-separated labels
\* with at least one dot.
IsEmail(s) ==
    /\ Count(s, "@") = 1
    /\ LET at == RFind(s, "@")
           domain == SubSeq(s, at + 1, Len(s))
           labels == Split(Replace(domain, ".", "/"))
       IN  /\ at > 1
           /\ Len(labels) >= 2
           /\ \A i \in 1..Len(labels) : labels[i] # <<>>

\* Form(...): the required form fields the request does not carry.
MissingFields(f) == Required \ DOMAIN f

\* Lead(...) and Estimate(...): construction succeeds or raises
\* ValidationError.
ModelValid(f) == MissingFields(f) = {} /\ IsEmail(f["email"])

\* ----------------------------------------------------------------- inputs
Text == <<"x">>
GoodEmail == <<"j", "@", "e", ".", "c">>
BadEmails == {<<"j", "e", ".", "c">>, <<"j", "@", "e">>}

GoodForm == [f \in Required |-> IF f = "email" THEN GoodEmail ELSE Text]

Without(f, field) == [g \in DOMAIN f \ {field} |-> f[g]]

\* The forms a request may carry: a valid one, two with a malformed email,
\* two with a required field left out.
Forms ==
    {GoodForm}
    \cup {[GoodForm EXCEPT !["email"] = e] : e \in BadEmails}
    \cup {Without(GoodForm, field) : field \in {"phone", "email"}}

\* "a b.p", "../a b.p" and "x/a.p" as client-supplied file names.
FileNames ==
    { <<"a", " ", "b", ".", "p">>,
      <<".", ".", "/", "a", " ", "b", ".", "p">>,
      <<"x", "/", "a", ".", "p">> }

\* The i-th upload of request r carries bytes no other upload carries.
Content(r, i) == <<r, i>>

\* ------------------------------------------------------------------ state
VARIABLES
    pc,          \* where each request is: idle, loop, validate, insert, done
    kind,        \* "lead" or "estimate"
    form,        \* the form fields the request carries
    photos,      \* the uploaded files of the request, in order received
    saved_files, \* saved_files of submit_estimate
    response,    \* what the caller is told
    files,       \* the file system: resolved path -> content
    store,       \* the documents the store holds
    insertCalls, \* create_document calls made for each request
    written,     \* every write that opened its file
    namer        \* the naming function on its own: input and result

vars == <<pc, kind, form, photos, saved_files, response, files, store,
          insertCalls, written, namer>>

NoResponse ==
    [status |-> 0, success |-> FALSE, id |-> <<>>, files |-> <<>>,
     error |-> "none", fields |-> {}]

NoNamer == [filename |-> <<>>, rnd |-> <<>>, unique_name |-> <<>>, done |-> FALSE]

\* No request has arrived, the upload directory and the store are empty.
NoRequests ==
    /\ pc = [r \in Requests |-> "idle"]
    /\ kind = [r \in Requests |-> "lead"]
    /\ form = [r \in Requests |-> GoodForm]
    /\ photos = [r \in Requests |-> <<>>]
    /\ saved_files = [r \in Requests |-> <<>>]
    /\ response = [r \in Requests |-> NoResponse]
    /\ files = [p \in {} |-> <<>>]
    /\ store = {}
    /\ insertCalls = [r \in Requests |-> 0]
    /\ written = {}

Init == NoRequests /\ namer = NoNamer

\* ---------------------------------------------------------------- actions
Done(resp, r) == pc' = [pc EXCEPT ![r] = "done"] /\ response' = [response EXCEPT ![r] = resp]

\* An error response: the status, the kind of failure, the fields named.
Failure(status, error, fields) ==
    [status |-> status, success |-> FALSE, id |-> <<>>, files |-> <<>>,
     error |-> error, fields |-> fields]

\* {"success": True, "id": inserted_id[, "files": saved_files]}
Success(id, names) ==
    [status |-> 200, success |-> TRUE, id |-> id, files |-> names,
     error |-> "none", fields |-> {}]

\* Uploads already received over all requests.
RECURSIVE Uploaded(_)
Uploaded(rs) ==
    IF rs = {} THEN 0
    ELSE LET r == CHOOSE q \in rs : TRUE IN Len(photos[r]) + Uploaded(rs \ {r})

\* The upload lists a request of this kind may carry.
PhotoLists(k, r) ==
    IF k = "lead" THEN {<<>>}
    ELSE UNION {
        {[i \in 1..n |-> [filename |-> fn[i], content |-> Content(r, i)]] :
            fn \in [1..n -> FileNames]} :
        n \in 0..(MaxFiles - Uploaded(Requests))}

\* The framework parses the form: a request missing a Form(...) field is
\* answered 422 with the fields named and the handler does not run.
Receive(r) ==
    /\ pc[r] = "idle"
    /\ \A q \in Requests : q < r => pc[q] # "idle"   \* labels in order of arrival
    /\ \E k \in {"lead", "estimate"}, f \in Forms :
         \E ph \in PhotoLists(k, r) :
            /\ kind' = [kind EXCEPT ![r] = k]
            /\ form' = [form EXCEPT ![r] = f]
            /\ photos' = [photos EXCEPT ![r] = ph]
            /\ IF MissingFields(f) # {}
               THEN Done(Failure(422, "RequestValidationError", MissingFields(f)), r)
               ELSE /\ pc' = [pc EXCEPT ![r] =
                              IF k = "estimate" /\ ph # <<>> THEN "loop" ELSE "validate"]
                    /\ UNCHANGED response
    /\ UNCHANGED <<saved_files, files, store, insertCalls, written, namer>>

\* What may happen to the open and the write of one file: both succeed, the
\* open raises (nothing is created), or the write raises (the file is left
\* created and empty).
IoOutcomes == {"ok", "open_fails", "write_fails"}

\* The loop left after its first turn.
LoopExitEarly(i, n) == "validate"

\* for f in photos: the loop goes on until the last file is done.
LoopExit(i, n) == IF i = n THEN "validate" ELSE "loop"

\* One turn of the loop over photos: name the file, read it, write it.
SaveFile(r) ==
    /\ pc[r] = "loop"
    /\ LET i == Len(saved_files[r]) + 1
           f == photos[r][i]
       IN  \E rnd \in Urandom, io \in IoOutcomes :
             LET unique_name == UniqueName(f.filename, rnd)
                 dest_path == PathJoin(UPLOAD_DIR, unique_name)
                 out == OpenWb(dest_path)
                 wr == [req |-> r, index |-> i, filename |-> f.filename, rnd |-> rnd,
                        name |-> unique_name, target |-> out.target]
             IN  IF ~out.ok \/ io = "open_fails"
                 THEN /\ Done(Failure(500, "IOFailure", {}), r)
                      /\ UNCHANGED <<saved_files, files, written>>
                 ELSE /\ written' = written \cup {wr}
                      /\ IF io = "write_fails"
                         THEN /\ files' = [p \in DOMAIN files \cup {out.target} |->
                                            IF p = out.target THEN <<>> ELSE files[p]]
                              /\ Done(Failure(500, "IOFailure", {}), r)
                              /\ UNCHANGED saved_files
                         ELSE /\ files' = [p \in DOMAIN files \cup {out.target} |->
                                            IF p = out.target THEN f.content ELSE files[p]]
                              /\ saved_files' = [saved_files EXCEPT ![r] = Append(@, unique_name)]
                              /\ pc' = [pc EXCEPT ![r] = LoopExit(i, Len(photos[r]))]
                              /\ UNCHANGED response
    /\ UNCHANGED <<kind, form, photos, store, insertCalls, namer>>

\* Lead(...) or Estimate(...): a ValidationError raised here is caught by
\* nothing in the handler and leaves it as an unhandled exception.
Validate(r) ==
    /\ pc[r] = "validate"
    /\ IF ModelValid(form[r])
       THEN pc' = [pc EXCEPT ![r] = "insert"] /\ UNCHANGED response
       ELSE Done(Failure(500, "ValidationError", {}), r)
    /\ UNCHANGED <<kind, form, photos, saved_files, files, store, insertCalls, written, namer>>

\* Both handlers naming the collection of submit_estimate.
CollectionOfEstimate(k) == "estimate"

\* The collection each handler names in its create_document call.
CollectionOf(k) == IF k = "lead" THEN "lead" ELSE "estimate"

\* The document create_document is given: the fields of the model.
Document(r) ==
    [form |-> form[r], photo_filenames |-> saved_files[r], source |-> "website"]

\* The identifier the store gives the document of a call: a new one per call.
InsertedId(r, call) == <<r, call>>

\* create_document(collection_name, data): one insert; the new identifier.
CreateDocument(docs, collection, data, id) ==
    docs \cup {[id |-> id, collection |-> collection, data |-> data]}

\* The failed call made a second time before the error is raised.
StoreFailedRetry(r) ==
    /\ insertCalls' = [insertCalls EXCEPT ![r] = @ + 2]
    /\ UNCHANGED store
    /\ pc' = [pc EXCEPT ![r] = "done"]
    /\ response' = [response EXCEPT ![r] =
                     [status |-> 500, success |-> FALSE, id |-> <<>>, files |-> <<>>,
                      error |-> "StoreFailure", fields |-> {}]]

\* except Exception as e: raise HTTPException(status_code=500, ...); the
\* call is not made again.
StoreFailed(r) ==
    /\ insertCalls' = [insertCalls EXCEPT ![r] = @ + 1]
    /\ UNCHANGED store
    /\ Done(Failure(500, "StoreFailure", {}), r)

\* try: create_document(...) and the success response.
Stored(r) ==
    LET id == InsertedId(r, insertCalls[r] + 1)
    IN  /\ insertCalls' = [insertCalls EXCEPT ![r] = @ + 1]
        /\ store' = CreateDocument(store, CollectionOf(kind[r]), Document(r), id)
        /\ Done(Success(id, saved_files[r]), r)

\* The create_document call of either handler and its response.
Insert(r) ==
    /\ pc[r] = "insert"
    /\ Stored(r) \/ StoreFailed(r)
    /\ UNCHANGED <<kind, form, photos, saved_files, files, written, namer>>

Next == \E r \in Requests : Receive(r) \/ SaveFile(r) \/ Validate(r) \/ Insert(r)

Spec == Init /\ [][Next]_vars

\* ------------------------------------------------- the naming function alone
Alphabet == {"a", " ", ".", "/"}

Strs(n) == UNION {[1..k -> Alphabet] : k \in 0..n}

\* Filler of k characters, a space at every third place.
Pad(k) == [i \in 1..k |-> IF i % 3 = 0 THEN " " ELSE "a"]

PadLens == {0, MaxBase - 3, MaxBase - 1, MaxBase, MaxBase + 5}

\* File names with bases on both sides of MaxBase characters, with and
\* without spaces, dots and separators.
NamePool == {p \o Pad(k) \o t : p \in Strs(MaxAffix), k \in PadLens, t \in Strs(MaxAffix)}

NameInit ==
    /\ NoRequests
    /\ \E fn \in NamePool, rnd \in Urandom :
         namer = [filename |-> fn, rnd |-> rnd, unique_name |-> <<>>, done |-> FALSE]

\* Lines 106-110 of submit_estimate for one file name.
GenerateName ==
    /\ ~namer.done
    /\ namer' = [namer EXCEPT !.unique_name = UniqueName(namer.filename, namer.rnd),
                              !.done = TRUE]
    /\ UNCHANGED <<pc, kind, form, photos, saved_files, response, files, store,
                   insertCalls, written>>

NameNext == GenerateName

NameSpec == NameInit /\ [][NameNext]_vars

\* ------------------------------------------------------------- properties
Finished(r) == pc[r] = "done"

WritesOf(r) == {w \in written : w.req = r}

DocsOf(r) == {d \in store : d.id[1] = r}

ClientError(resp) == resp.status \in 400..499

ValidationFailure(resp) == resp.error \in {"RequestValidationError", "ValidationError"}

Min(a, b) == IF a < b THEN a ELSE b

\* C1: when a request whose input fails validation (a required field
\* missing or a malformed email) has its validation failure reported, it has
\* written no file and made no insert.
C1_NoSideEffectBeforeValidationFailure ==
    \A r \in Requests :
        (Finished(r) /\ ~ModelValid(form[r]) /\ ValidationFailure(response[r])) =>
            /\ WritesOf(r) = {}
            /\ insertCalls[r] = 0
            /\ DocsOf(r) = {}

\* C2: a request missing a required field or carrying a malformed email is
\* answered with a validation failure, and the store receives no insert call
\* for it.
C2_InvalidInputIsValidationFailure ==
    \A r \in Requests :
        (Finished(r) /\ ~ModelValid(form[r])) =>
            /\ ValidationFailure(response[r])
            /\ ~response[r].success
            /\ insertCalls[r] = 0

\* C3: a request with all required fields present and a malformed email is
\* answered with a client error that names the invalid fields, never with a
\* server error.
C3_MalformedEmailIsClientError ==
    \A r \in Requests :
        (Finished(r) /\ MissingFields(form[r]) = {} /\ ~IsEmail(form[r]["email"])) =>
            /\ ClientError(response[r])
            /\ response[r].status # 500
            /\ "email" \in response[r].fields

\* C4 as stated: every valid Lead input is answered with success and a
\* non-empty identifier, with exactly one document under "lead".
C4_ValidLeadAlwaysSucceeds ==
    \A r \in Requests :
        (Finished(r) /\ kind[r] = "lead" /\ ModelValid(form[r])) =>
            /\ response[r].success
            /\ response[r].id # <<>>
            /\ Cardinality(DocsOf(r)) = 1
            /\ \A d \in DocsOf(r) : d.collection = "lead"

\* C4, amended: every valid Lead input makes exactly one insert call; when
\* the call succeeds the answer is success with a non-empty identifier and
\* the store holds exactly one document of the request, under "lead"; when it
\* fails the answer is a server error and the store holds none. A successful
\* Submit Estimate has exactly one document, under "estimate". No document is
\* under any other collection, and no request has more than one.
C4_OneDocumentUnderFixedCollection ==
    /\ \A d \in store : d.collection \in {"lead", "estimate"}
    /\ \A r \in Requests :
        /\ insertCalls[r] <= 1
        /\ Cardinality(DocsOf(r)) <= insertCalls[r]
        /\ \A d \in DocsOf(r) :
              d.collection = (IF kind[r] = "lead" THEN "lead" ELSE "estimate")
        /\ (Finished(r) /\ kind[r] = "lead" /\ ModelValid(form[r])) =>
              /\ insertCalls[r] = 1
              /\ \/ /\ response[r].success
                    /\ response[r].status = 200
                    /\ response[r].id # <<>>
                    /\ Cardinality(DocsOf(r)) = 1
                 \/ /\ ~response[r].success
                    /\ response[r].status = 500
                    /\ DocsOf(r) = {}
        /\ (Finished(r) /\ response[r].success) =>
              /\ response[r].id # <<>>
              /\ insertCalls[r] = 1
              /\ Cardinality(DocsOf(r)) = 1
              /\ \A d \in DocsOf(r) : d.id = response[r].id

\* C4 witness: a lead and an estimate have both succeeded.
C4_Witness ==
    \E r, q \in Requests :
        /\ Finished(r) /\ kind[r] = "lead" /\ response[r].success
        /\ Finished(q) /\ kind[q] = "estimate" /\ response[q].success
        /\ Cardinality(store) = 2

\* The entries of a sequence are pairwise distinct.
Distinct(seq) == \A i, j \in 1..Len(seq) : i # j => seq[i] # seq[j]

\* C5: a Submit Estimate that succeeds with N files returns N names,
\* pairwise distinct, the i-th being the name generated for the i-th file,
\* each naming a file in the upload directory whose content is the i-th
\* input's.
C5_ReturnedNamesAreStoredFiles ==
    \A r \in Requests :
        (Finished(r) /\ kind[r] = "estimate" /\ response[r].success) =>
            LET names == response[r].files
            IN  /\ Len(names) = Len(photos[r])
                /\ names = saved_files[r]
                /\ Distinct(names)
                /\ \A i \in 1..Len(names) :
                      /\ \E w \in WritesOf(r) :
                            /\ w.index = i
                            /\ w.name = names[i]
                            /\ w.filename = photos[r][i].filename
                      /\ Append(UploadPath, names[i]) \in DOMAIN files
                      /\ files[Append(UploadPath, names[i])] = photos[r][i].content

\* C6: the files of a request are written in the order received, one turn of
\* the loop each; an insert is attempted only when every file has been
\* written; a request whose write fails attempts no insert and reports a
\* failure.
C6_FilesBeforeInsert ==
    \A r \in Requests :
        /\ \A i \in 1..Len(saved_files[r]) :
              \E w \in WritesOf(r) :
                  /\ w.index = i
                  /\ w.name = saved_files[r][i]
                  /\ w.filename = photos[r][i].filename
        /\ \A w \in WritesOf(r) : w.index \in 1..(Len(saved_files[r]) + 1)
        /\ \A w \in WritesOf(r) :
              w.index = Len(saved_files[r]) + 1 => response[r].error = "IOFailure"
        /\ (pc[r] = "insert" \/ insertCalls[r] > 0) =>
              /\ Len(saved_files[r]) = Len(photos[r])
              /\ {w.index : w \in WritesOf(r)} = 1..Len(photos[r])
        /\ response[r].error = "IOFailure" =>
              /\ Finished(r)
              /\ insertCalls[r] = 0
              /\ DocsOf(r) = {}
              /\ ~response[r].success
              /\ response[r].status = 500

\* C6 witness: the second of two files failed after the first was written,
\* and another estimate went on to its insert.
C6_Witness ==
    \E r, q \in Requests :
        /\ response[r].error = "IOFailure"
        /\ Len(photos[r]) = 2
        /\ Len(saved_files[r]) = 1
        /\ insertCalls[r] = 0
        /\ q # r /\ insertCalls[q] = 1 /\ kind[q] = "estimate"

\* C7 as stated: no two file writes for the same original file name, of the
\* same or of different requests, target the same generated name.
C7_NoTwoWritesCollide ==
    \A w1, w2 \in written :
        (w1 # w2 /\ w1.filename = w2.filename) =>
            (w1.name # w2.name /\ w1.target # w2.target)

\* C7, amended: two file writes for the same original file name target the
\* same generated name exactly when os.urandom returned the same four bytes
\* to both; with different bytes the names and the files differ.
C7_CollideOnlyOnEqualRandom ==
    \A w1, w2 \in written :
        (w1 # w2 /\ w1.filename = w2.filename) =>
            /\ (w1.name = w2.name) <=> (w1.rnd = w2.rnd)
            /\ (w1.target = w2.target) <=> (w1.rnd = w2.rnd)

\* C7 witness: two requests wrote files of the same original name under
\* different random bytes.
C7_Witness ==
    \E w1, w2 \in written :
        /\ w1.req # w2.req
        /\ w1.filename = w2.filename
        /\ w1.rnd # w2.rnd
        /\ w1.target \in DOMAIN files /\ w2.target \in DOMAIN files

\* C8: the stored name is the original base, each space replaced by an
\* underscore, cut to its first 50 characters, then an underscore, 8 hex
\* characters and the original extension unchanged.
C8_StoredNameForm ==
    namer.done =>
        LET fn == namer.filename
            u == namer.unique_name
            b == SplitExt(fn).base
            e == SplitExt(fn).ext
            m == Min(Len(b), 50)
        IN  /\ b \o e = fn
            /\ e # <<>> => (e[1] = "." /\ \A i \in 2..Len(e) : e[i] \notin {".", "/"})
            /\ Len(u) = m + 1 + 8 + Len(e)
            /\ \A i \in 1..m : u[i] = (IF b[i] = " " THEN "_" ELSE b[i])
            /\ \A i \in 1..m : u[i] # " "
            /\ u[m + 1] = "_"
            /\ \A i \in (m + 2)..(m + 9) : u[i] \in HexChars
            /\ SubSeq(u, m + 10, Len(u)) = e

\* C8 witness: a name was generated for a base of more than 50 characters
\* with a space past the 50th and an extension.
C8_Witness ==
    /\ namer.done
    /\ Len(SplitExt(namer.filename).base) > 50
    /\ \E i \in 1..50 : SplitExt(namer.filename).base[i] = " "
    /\ SplitExt(namer.filename).base[51] = " "
    /\ SplitExt(namer.filename).ext # <<>>

\* What C9 says of the state a failed insert leaves.
C9_State ==
    \A r \in Requests :
        response[r].error = "StoreFailure" =>
            /\ Finished(r)
            /\ insertCalls[r] = 1
            /\ response[r].status = 500
            /\ ~response[r].success
            /\ response[r].id = <<>>
            /\ DocsOf(r) = {}
            /\ \A w \in WritesOf(r) : w.target \in DOMAIN files

\* What C9 says of the steps: the step that reports the failed insert leaves
\* every file as it was, a request that has reported makes no further call,
\* and no step removes a file.
C9_Step ==
    /\ \A r \in Requests :
          (response[r].error # "StoreFailure" /\ response'[r].error = "StoreFailure") =>
              files' = files
    /\ \A r \in Requests :
          response[r].error = "StoreFailure" =>
              (insertCalls'[r] = insertCalls[r] /\ response'[r] = response[r])
    /\ DOMAIN files \subseteq DOMAIN files'

\* C9: when the store insert fails the request has made one insert call and
\* makes no other, answers with a server error and no success indicator, and
\* every file it wrote stays in place: nothing is rolled back.
C9_StoreFailureNoRetryNoRollback == [](C9_State) /\ [][C9_Step]_vars

\* C9 witness: an estimate with a written file has reported a failed insert.
C9_Witness ==
    \E r \in Requests :
        /\ response[r].error = "StoreFailure"
        /\ kind[r] = "estimate"
        /\ Len(saved_files[r]) >= 1

\* C10: every write goes to a direct child of the upload directory, and no
\* file exists anywhere else.
C10_WritesStayInUploadDir ==
    /\ \A w \in written : Parent(w.target) = UploadPath
    /\ \A p \in DOMAIN files : Parent(p) = UploadPath

====
